---- MODULE Spec2Model ----
(***************************************************************************)
(* Sentiment Analyzer: the Streamlit application (app.py), the library     *)
(* variant (sentiment.py) and the test's copy of the lexicon rule          *)
(* (test_app.py).                                                          *)
(*                                                                         *)
(* Numbers.  A compound score is an integer number of 1/CompoundScale      *)
(* (VADER reports it with four decimals), a confidence an integer number   *)
(* of 1/ConfScale, a raw class probability an integer number of 1/RawDen   *)
(* and a rounded class score an integer number of 1/Scale.                 *)
(*                                                                         *)
(* Texts.  A text is [ws |-> w, body |-> b]: w whitespace characters       *)
(* followed by b non-whitespace characters.                                *)
(***************************************************************************)
EXTENDS Integers, Sequences, FiniteSets, TLC

VARIABLES
    pc,                 \* position of the script run in app.main
    user_input,         \* content of the text area
    vader_result,       \* <<>> while unbound, else <<the dict of analyze_with_vader>>
    transformer_result, \* <<>> while unbound, else <<the dict of analyze_with_transformer>>
    verdict,            \* branch taken by the agreement check, "none" before it
    outcome,            \* how the script run ended
    display,            \* what the run has rendered so far, in order
    vader_calls,        \* texts handed to the lexicon engine, in order
    model_calls,        \* texts handed to the classifier pipeline, in order
    arg,                \* arguments of a direct call of a library function
    ret                 \* what the directly called functions returned

vars == <<pc, user_input, vader_result, transformer_result, verdict, outcome,
          display, vader_calls, model_calls, arg, ret>>

---------------------------------------------------------------------------
(* Bounds of the model *)

MaxWs == 2       \* leading whitespace characters of a text
MaxShort == 1    \* short texts have 0..MaxShort non-whitespace characters
MaxOver == 2     \* long texts are within MaxOver characters of MAX_CHARS
MaxDelta == 1    \* sampled scores lie within MaxDelta units of a threshold
MaxOff == 1      \* raw probabilities lie within MaxOff units of a grid point

(* Constants of the program *)

MAX_CHARS == 512
Scale == 1000
CompoundScale == 10 * Scale
ConfScale == Scale
RawDen == 3 * Scale

Min(a, b) == IF a <= b THEN a ELSE b

---------------------------------------------------------------------------
(* Texts *)

TextLen(t) == t.ws + t.body

Strip(t) == [ws |-> 0, body |-> t.body]

Truthy(t) == TextLen(t) > 0

Slice(t, n) ==
    LET w == Min(t.ws, n)
    IN  [ws |-> w, body |-> Min(t.body, n - w)]

BodyLens == (0..MaxShort) \cup ((MAX_CHARS - MaxOver)..(MAX_CHARS + MaxOver))

Texts == [ws : 0..MaxWs, body : BodyLens]

---------------------------------------------------------------------------
(* app.py: helpers *)

get_sentiment_emoji(sentiment) ==
    IF sentiment = "POSITIVE" \/ sentiment = "positive" THEN "smiling"
    ELSE IF sentiment = "NEGATIVE" \/ sentiment = "negative" THEN "disappointed"
    ELSE "neutral_face"

POS_THRESHOLD == CompoundScale \div 20

NEG_THRESHOLD == 0 - (CompoundScale \div 20)

\* Mutation of get_vader_sentiment_label: the positive test with > in place of >=.
get_vader_sentiment_label_strict(compound_score) ==
    IF compound_score > POS_THRESHOLD THEN "POSITIVE"
    ELSE IF compound_score <= NEG_THRESHOLD THEN "NEGATIVE"
    ELSE "NEUTRAL"

get_vader_sentiment_label(compound_score) ==
    IF compound_score >= POS_THRESHOLD THEN "POSITIVE"
    ELSE IF compound_score <= NEG_THRESHOLD THEN "NEGATIVE"
    ELSE "NEUTRAL"

analyze_with_vader(scores) ==
    [sentiment |-> get_vader_sentiment_label(scores.compound),
     compound |-> scores.compound]

TruncatedInput(text) == Slice(text, MAX_CHARS)

analyze_with_transformer(result) ==
    [sentiment |-> result.label, confidence |-> result.score]

WEAK_THRESHOLD == (3 * ConfScale) \div 4

\* Mutation of AgreementCheck: the weak-signal test with <= in place of <.
AgreementCheckInclusive(vader, transformer) ==
    IF vader.sentiment = transformer.sentiment THEN "Agree"
    ELSE IF vader.sentiment = "NEUTRAL" /\ transformer.confidence <= WEAK_THRESHOLD
         THEN "WeakDisagreeNeutral"
    ELSE "Disagree"

AgreementCheck(vader, transformer) ==
    IF vader.sentiment = transformer.sentiment THEN "Agree"
    ELSE IF vader.sentiment = "NEUTRAL" /\ transformer.confidence < WEAK_THRESHOLD
         THEN "WeakDisagreeNeutral"
    ELSE "Disagree"

\* Mutation of InputGuard: the emptiness test without strip().
InputGuardNoStrip(text) == Truthy(text)

InputGuard(text) == Truthy(Strip(text))

---------------------------------------------------------------------------
(* The two engines, as app.main sees them *)

CompoundSamples ==
    {0 - CompoundScale, 0, CompoundScale}
        \cup ((NEG_THRESHOLD - MaxDelta)..(NEG_THRESHOLD + MaxDelta))
        \cup ((POS_THRESHOLD - MaxDelta)..(POS_THRESHOLD + MaxDelta))

\* polarity_scores either raises or returns the scores; a text without any
\* token has compound 0.
EngineOutcomes(text) ==
    {[ok |-> FALSE, compound |-> 0]}
        \cup {[ok |-> TRUE, compound |-> c] :
                c \in IF text.body = 0 THEN {0} ELSE CompoundSamples}

PipelineLabels == {"POSITIVE", "NEGATIVE", "NEUTRAL", "LABEL_9"}

ConfSamples ==
    {ConfScale \div 2, ConfScale}
        \cup ((WEAK_THRESHOLD - MaxDelta)..(WEAK_THRESHOLD + MaxDelta))

\* The pipeline either raises or returns [{label, score}].
PipelineOutcomes ==
    {[ok |-> FALSE, label |-> "", score |-> 0]}
        \cup {[ok |-> TRUE, label |-> l, score |-> s] :
                l \in PipelineLabels, s \in ConfSamples}

---------------------------------------------------------------------------
(* app.py: one script run of main with the Analyze button pressed *)

Shown(section, sentiment, emoji) ==
    [section |-> section, sentiment |-> sentiment, emoji |-> emoji]

NoCall == [f \in {"get_vader_sentiment_label", "analyze_vader", "test_nltk_vader",
                  "analyze_sentiment"} |-> <<>>]

Init ==
    /\ pc = "button"
    /\ user_input \in Texts
    /\ vader_result = <<>>
    /\ transformer_result = <<>>
    /\ verdict = "none"
    /\ outcome = "running"
    /\ display = <<>>
    /\ vader_calls = <<>>
    /\ model_calls = <<>>
    /\ arg = <<>>
    /\ ret = NoCall

Button ==
    /\ pc = "button"
    /\ IF InputGuard(user_input)
       THEN /\ pc' = "vader"
            /\ UNCHANGED <<outcome, display>>
       ELSE /\ pc' = "done"
            /\ outcome' = "warning"
            /\ display' = Append(display, Shown("enter_text_warning", "", ""))
    /\ UNCHANGED <<user_input, vader_result, transformer_result, verdict,
                   vader_calls, model_calls, arg, ret>>

VaderAnalysis ==
    /\ pc = "vader"
    /\ \E out \in EngineOutcomes(user_input) :
        /\ vader_calls' = Append(vader_calls, user_input)
        /\ IF out.ok
           THEN LET r == analyze_with_vader(out)
                IN  /\ vader_result' = <<r>>
                    /\ display' = Append(display,
                           Shown("vader", r.sentiment, get_sentiment_emoji(r.sentiment)))
                    /\ pc' = "transformer"
                    /\ UNCHANGED outcome
           ELSE /\ pc' = "done"
                /\ outcome' = "exception"
                /\ UNCHANGED <<vader_result, display>>
    /\ UNCHANGED <<user_input, transformer_result, verdict, model_calls, arg, ret>>

TransformerAnalysis ==
    /\ pc = "transformer"
    /\ \E out \in PipelineOutcomes :
        /\ model_calls' = Append(model_calls, TruncatedInput(user_input))
        /\ IF out.ok
           THEN LET r == analyze_with_transformer(out)
                IN  /\ transformer_result' = <<r>>
                    /\ display' = Append(display,
                           Shown("transformer", r.sentiment, get_sentiment_emoji(r.sentiment)))
                    /\ pc' = "compare"
                    /\ UNCHANGED outcome
           ELSE /\ pc' = "done"
                /\ outcome' = "exception"
                /\ UNCHANGED <<transformer_result, display>>
    /\ UNCHANGED <<user_input, vader_result, verdict, vader_calls, arg, ret>>

Comparison ==
    /\ pc = "compare"
    /\ verdict' = AgreementCheck(vader_result[1], transformer_result[1])
    /\ display' = Append(display, Shown("comparison", "", ""))
    /\ outcome' = "compared"
    /\ pc' = "done"
    /\ UNCHANGED <<user_input, vader_result, transformer_result, vader_calls,
                   model_calls, arg, ret>>

Next == Button \/ VaderAnalysis \/ TransformerAnalysis \/ Comparison

Spec == Init /\ [][Next]_vars

---------------------------------------------------------------------------
(* app.main at the comparison section, for every pair of scorer results *)

OneWord == {t \in Texts : t.ws = 0 /\ t.body = 1}

InitCompare ==
    /\ pc = "compare"
    /\ user_input \in OneWord
    /\ \E c \in CompoundSamples :
         vader_result = <<analyze_with_vader([ok |-> TRUE, compound |-> c])>>
    /\ \E l \in PipelineLabels, s \in 0..ConfScale :
         transformer_result =
             <<analyze_with_transformer([ok |-> TRUE, label |-> l, score |-> s])>>
    /\ verdict = "none"
    /\ outcome = "running"
    /\ display =
         <<Shown("vader", vader_result[1].sentiment,
                 get_sentiment_emoji(vader_result[1].sentiment)),
           Shown("transformer", transformer_result[1].sentiment,
                 get_sentiment_emoji(transformer_result[1].sentiment))>>
    /\ vader_calls = <<user_input>>
    /\ model_calls = <<TruncatedInput(user_input)>>
    /\ arg = <<>>
    /\ ret = NoCall

NextCompare == Comparison

SpecAgree == InitCompare /\ [][NextCompare]_vars

---------------------------------------------------------------------------
(* The lexicon rule: app.py, sentiment.py and the copy in test_app.py *)

\* round(compound, 3) of a four-decimal compound: the nearest thousandth; a
\* value half way between two thousandths goes to whichever one its binary
\* representation is nearer to.
RoundCompound(compound) ==
    LET step == CompoundScale \div Scale
        q == compound \div step
        r == compound % step
    IN  IF 2 * r < step THEN {q}
        ELSE IF 2 * r > step THEN {q + 1}
        ELSE {q, q + 1}

analyze_vader_label(compound) ==
    IF compound >= POS_THRESHOLD THEN "Positive"
    ELSE IF compound <= NEG_THRESHOLD THEN "Negative"
    ELSE "Neutral"

test_nltk_vader_sentiment(compound) ==
    IF compound >= POS_THRESHOLD THEN "POSITIVE"
    ELSE IF compound <= NEG_THRESHOLD THEN "NEGATIVE"
    ELSE "NEUTRAL"

Idle ==
    /\ pc = "call"
    /\ vader_result = <<>>
    /\ transformer_result = <<>>
    /\ verdict = "none"
    /\ outcome = "running"
    /\ display = <<>>
    /\ vader_calls = <<>>
    /\ model_calls = <<>>
    /\ ret = NoCall

InitLabel ==
    /\ Idle
    /\ user_input \in OneWord
    /\ \E c \in (0 - CompoundScale)..CompoundScale :
         arg = [text |-> user_input, compound |-> c]

UnchangedApp ==
    UNCHANGED <<pc, user_input, vader_result, transformer_result, verdict,
                outcome, display, arg>>

CallGetVaderSentimentLabel ==
    /\ pc = "call"
    /\ ret["get_vader_sentiment_label"] = <<>>
    /\ ret' = [ret EXCEPT !["get_vader_sentiment_label"] =
                  <<[label |-> get_vader_sentiment_label(arg.compound)]>>]
    /\ UNCHANGED <<vader_calls, model_calls>>
    /\ UnchangedApp

CallAnalyzeVader ==
    /\ pc = "call"
    /\ ret["analyze_vader"] = <<>>
    /\ vader_calls' = Append(vader_calls, arg.text)
    /\ \E score \in RoundCompound(arg.compound) :
         ret' = [ret EXCEPT !["analyze_vader"] =
                    <<[label |-> analyze_vader_label(arg.compound), score |-> score]>>]
    /\ UNCHANGED model_calls
    /\ UnchangedApp

CallTestNltkVader ==
    /\ pc = "call"
    /\ ret["test_nltk_vader"] = <<>>
    /\ vader_calls' = Append(vader_calls, arg.text)
    /\ ret' = [ret EXCEPT !["test_nltk_vader"] =
                  <<[label |-> test_nltk_vader_sentiment(arg.compound)]>>]
    /\ UNCHANGED model_calls
    /\ UnchangedApp

NextLabel == CallGetVaderSentimentLabel \/ CallAnalyzeVader \/ CallTestNltkVader

SpecLabel == InitLabel /\ [][NextLabel]_vars

---------------------------------------------------------------------------
(* sentiment.py: analyze_sentiment *)

LABEL_MAP ==
    [t \in {"LABEL_0", "LABEL_1", "LABEL_2"} |->
        IF t = "LABEL_0" THEN "Negative"
        ELSE IF t = "LABEL_1" THEN "Neutral"
        ELSE "Positive"]

\* round(score, 3) of a raw probability: the nearest thousandth (no raw
\* probability of the model lies half way between two thousandths).
RoundScore(raw) == (2 * raw * Scale + RawDen) \div (2 * RawDen)

\* The dict comprehension: the items in the order the model lists them, or a
\* KeyError at the first token LABEL_MAP does not hold.
KnownTokens(results) ==
    \A i \in 1..Len(results) : results[i].label \in DOMAIN LABEL_MAP

ScoresDict(results) ==
    [i \in 1..Len(results) |->
        [label |-> LABEL_MAP[results[i].label],
         score |-> RoundScore(results[i].score)]]

\* max(scores, key=scores.get): the first key, in insertion order, whose
\* value no other key's value exceeds.
MaxKey(scores) ==
    LET i == CHOOSE i \in 1..Len(scores) :
                 /\ \A j \in 1..Len(scores) : scores[j].score <= scores[i].score
                 /\ \A j \in 1..(i - 1) : scores[j].score < scores[i].score
    IN  scores[i].label

ScoreOf(scores, label) ==
    LET i == CHOOSE i \in 1..Len(scores) : scores[i].label = label
    IN  scores[i].score

analyze_sentiment(results) ==
    IF KnownTokens(results)
    THEN LET scores == ScoresDict(results)
             label == MaxKey(scores)
         IN  [raised |-> "", label |-> label, score |-> ScoreOf(scores, label),
              scores |-> scores]
    ELSE [raised |-> "KeyError", label |-> "", score |-> 0, scores |-> <<>>]

NativeTokens == {"LABEL_0", "LABEL_1", "LABEL_2", "LABEL_9"}

Listings ==
    {<<a, b, c>> : a \in NativeTokens, b \in NativeTokens, c \in NativeTokens}
        \ {l \in [1..3 -> NativeTokens] : \E i, j \in 1..3 : i # j /\ l[i] = l[j]}

RawGrid ==
    {g * (RawDen \div 6) + d : g \in 0..6, d \in (0 - MaxOff)..MaxOff}
        \cap (0..RawDen)

\* Class probabilities of a softmax: they sum to 1.
RawTriples ==
    {<<a, b, RawDen - a - b>> : a \in RawGrid, b \in RawGrid}
        \cap [1..3 -> 0..RawDen]

ModelOutputs ==
    {[i \in 1..3 |-> [label |-> l[i], score |-> p[i]]] :
        l \in Listings, p \in RawTriples}

InitLib ==
    /\ Idle
    /\ user_input \in {t \in Texts : t.ws = 0}
    /\ \E results \in ModelOutputs :
         arg = [text |-> user_input, results |-> results]

CallAnalyzeSentiment ==
    /\ pc = "call"
    /\ ret["analyze_sentiment"] = <<>>
    /\ model_calls' = Append(model_calls, arg.text)
    /\ ret' = [ret EXCEPT !["analyze_sentiment"] = <<analyze_sentiment(arg.results)>>]
    /\ UNCHANGED vader_calls
    /\ UnchangedApp

NextLib == CallAnalyzeSentiment

SpecLib == InitLib /\ [][NextLib]_vars

---------------------------------------------------------------------------
(* Properties *)

AppTaxonomy == {"POSITIVE", "NEGATIVE", "NEUTRAL"}

Blank(text) == text.body = 0

VaderFailed == vader_calls # <<>> /\ vader_result = <<>>

TransformerFailed == model_calls # <<>> /\ transformer_result = <<>>

Sections == {display[i].section : i \in 1..Len(display)}

\* C1: the agreement check yields exactly one verdict: Agree iff the two
\* labels are equal; WeakDisagreeNeutral iff they differ, the lexicon label is
\* Neutral and the confidence is strictly below 0.75; Disagree otherwise.  A
\* confidence of exactly 0.75 against a Neutral lexicon label gives Disagree,
\* and so does a non-Neutral lexicon label that differs, whatever the
\* confidence.
C1_AgreementVerdict ==
    verdict # "none" =>
        LET lex == vader_result[1].sentiment
            cls == transformer_result[1].sentiment
            conf == transformer_result[1].confidence
            weak == 4 * conf < 3 * ConfScale
        IN  /\ verdict \in {"Agree", "WeakDisagreeNeutral", "Disagree"}
            /\ (verdict = "Agree") <=> (lex = cls)
            /\ (verdict = "WeakDisagreeNeutral") <=>
                   (lex # cls /\ lex = "NEUTRAL" /\ weak)
            /\ (verdict = "Disagree") <=>
                   (lex # cls /\ ~(lex = "NEUTRAL" /\ weak))
            /\ (lex = "NEUTRAL" /\ cls # "NEUTRAL" /\ 4 * conf = 3 * ConfScale)
                   => verdict = "Disagree"
            /\ (lex # "NEUTRAL" /\ lex # cls) => verdict = "Disagree"

\* The agreement check has run on a Neutral lexicon label, a Negative
\* classifier label and a confidence of exactly 0.75, and said Disagree.
C1_Witness ==
    /\ pc = "done"
    /\ verdict = "Disagree"
    /\ vader_result[1].sentiment = "NEUTRAL"
    /\ transformer_result[1].sentiment = "NEGATIVE"
    /\ 4 * transformer_result[1].confidence = 3 * ConfScale

LabelClass(label) ==
    IF label \in {"POSITIVE", "Positive"} THEN "Positive"
    ELSE IF label \in {"NEGATIVE", "Negative"} THEN "Negative"
    ELSE IF label \in {"NEUTRAL", "Neutral"} THEN "Neutral"
    ELSE "other"

LexiconRules == {"get_vader_sentiment_label", "analyze_vader", "test_nltk_vader"}

\* C2: the lexicon label is Positive if compound >= 0.05, Negative if
\* compound <= -0.05 and Neutral otherwise, the two boundary values included
\* in their non-neutral class, and the rule of app.py, the rule of
\* sentiment.py and the test's copy put every compound in the same class.
C2_LexiconLabel ==
    \A f \in LexiconRules :
        ret[f] # <<>> =>
            LET c == arg.compound
                class == LabelClass(ret[f][1].label)
            IN  /\ 20 * c >= CompoundScale => class = "Positive"
                /\ 20 * c <= 0 - CompoundScale => class = "Negative"
                /\ (20 * c < CompoundScale /\ 20 * c > 0 - CompoundScale)
                       => class = "Neutral"
                /\ \A g \in LexiconRules :
                       ret[g] # <<>> => LabelClass(ret[g][1].label) = class

\* All three rules have classified a compound of exactly 0.05, as Positive.
C2_Witness ==
    /\ arg # <<>>
    /\ 20 * arg.compound = CompoundScale
    /\ \A f \in LexiconRules :
           ret[f] # <<>> /\ LabelClass(ret[f][1].label) = "Positive"

\* C3: for empty or whitespace-only input both scorers return a Neutral
\* result (compound 0.0) without an error and without handing the text to
\* the engine or the model, and the verdict is Agree.
C3_BlankInputAgrees ==
    (pc = "done" /\ Blank(user_input)) =>
        /\ outcome # "exception"
        /\ vader_calls = <<>>
        /\ model_calls = <<>>
        /\ vader_result # <<>>
        /\ vader_result[1].sentiment = "NEUTRAL"
        /\ vader_result[1].compound = 0
        /\ transformer_result # <<>>
        /\ transformer_result[1].sentiment = "NEUTRAL"
        /\ verdict = "Agree"

\* C4: a native label token outside the lookup table makes the analysis
\* raise an error; it is never shown under the default emoji nor carried as
\* the result's label.
C4_UnknownLabelRaises ==
    /\ \A i \in 1..Len(display) :
           (display[i].section = "transformer"
                /\ display[i].sentiment \notin AppTaxonomy)
               => outcome = "exception"
    /\ \A i \in 1..Len(display) :
           (display[i].section = "transformer"
                /\ display[i].emoji = "neutral_face")
               => display[i].sentiment = "NEUTRAL"

\* C5: the label carried by each scorer's result, and every label the
\* agreement check compares, is one of the three taxonomy values.
C5_LabelsInTaxonomy ==
    /\ vader_result # <<>> => vader_result[1].sentiment \in AppTaxonomy
    /\ transformer_result # <<>> => transformer_result[1].sentiment \in AppTaxonomy

TaxonomyRank(label) ==
    IF label = "Positive" THEN 3 ELSE IF label = "Neutral" THEN 2 ELSE 1

\* C6: the classifier's label has the maximum score of the returned
\* distribution, the confidence is that label's score, and among the classes
\* sharing the maximum the label is the first in the order Positive, Neutral,
\* Negative, whatever the order the model lists its classes in.
C6_MaxWithTaxonomyTieBreak ==
    (ret["analyze_sentiment"] # <<>> /\ ret["analyze_sentiment"][1].raised = "") =>
        LET r == ret["analyze_sentiment"][1]
            n == Len(r.scores)
        IN  /\ \E i \in 1..n :
                   r.scores[i].label = r.label /\ r.scores[i].score = r.score
            /\ \A j \in 1..n : r.scores[j].score <= r.score
            /\ \A j \in 1..n :
                   r.scores[j].score = r.score
                       => TaxonomyRank(r.scores[j].label) <= TaxonomyRank(r.label)

\* C7: the returned distribution sums to 1.0 within 1e-6 whenever the raw
\* class probabilities sum to 1.0.
C7_DistributionSumsToOne ==
    (ret["analyze_sentiment"] # <<>> /\ ret["analyze_sentiment"][1].raised = "") =>
        LET r == ret["analyze_sentiment"][1]
            sum == r.scores[1].score + r.scores[2].score + r.scores[3].score
            dev == IF sum >= Scale THEN sum - Scale ELSE Scale - sum
        IN  1000000 * dev <= Scale

\* C8: every text handed to the classifier model has at most 512 units, at
\* every classifier entry point, and the lexicon engine gets the whole text.
C8_ModelInputBounded ==
    /\ \A i \in 1..Len(model_calls) : TextLen(model_calls[i]) <= 512
    /\ \A i \in 1..Len(vader_calls) : vader_calls[i] = user_input

\* C9: a failure of one scorer never keeps the other scorer's result from
\* being reported, and with a side missing the agreement step ends in an
\* "incomplete comparison" outcome, not a crash and not a verdict.
C9_FailureIsolated ==
    pc = "done" =>
        /\ TransformerFailed =>
               ("vader" \in Sections /\ outcome = "incomplete" /\ verdict = "none")
        /\ VaderFailed =>
               (model_calls # <<>> /\ outcome = "incomplete" /\ verdict = "none")
        /\ (VaderFailed /\ transformer_result # <<>>) => "transformer" \in Sections

\* C10: after the button is pressed, the lexicon scorer, the classifier
\* scorer and the agreement check run only when user_input.strip() is not
\* empty; otherwise none of them runs, there is no verdict and the only
\* outcome is the warning.  The lexicon scorer has returned before the
\* classifier scorer is called, and the agreement check runs after both.
C10_GuardAndOrder ==
    /\ (vader_calls # <<>> \/ model_calls # <<>> \/ verdict # "none")
           => ~Blank(user_input)
    /\ (Blank(user_input) /\ pc = "done") =>
           /\ outcome = "warning"
           /\ display = <<Shown("enter_text_warning", "", "")>>
           /\ vader_result = <<>> /\ transformer_result = <<>>
    /\ (Blank(user_input) /\ pc # "done") => (pc = "button" /\ display = <<>>)
    /\ outcome = "warning" => Blank(user_input)
    /\ model_calls # <<>> => (vader_calls # <<>> /\ vader_result # <<>>)
    /\ verdict # "none" => (vader_result # <<>> /\ transformer_result # <<>>)
    /\ Len(vader_calls) <= 1 /\ Len(model_calls) <= 1

\* A whitespace-only input has been answered with the warning.
C10_Witness ==
    /\ pc = "done"
    /\ user_input.ws > 0
    /\ user_input.body = 0
    /\ outcome = "warning"

====
